---- MODULE Spec2Model ----
(***************************************************************************)
(* Model of the Streamlit dashboard script CIA-1.py.                       *)
(*                                                                         *)
(* The script is re-executed top to bottom on every user interaction; one  *)
(* execution is a render pass.  The state is the files on disk, the        *)
(* st.cache_data memo, the widget values of the session, the position of   *)
(* the running pass, the script's module-level names and what the pass has *)
(* put on the page so far.                                                 *)
(*                                                                         *)
(* A str the script inspects character by character (a column header, a    *)
(* state name) is the sequence of its Unicode code points; region codes    *)
(* and messages, which it only compares or shows, are atoms.  A float is   *)
(* an IEEE double: a sign, a mantissa below 2^53 and an exponent, NaN or   *)
(* an infinity; every operation rounds its exact result to the nearest     *)
(* double, ties to even, with gradual underflow and overflow to infinity.  *)
(* The files range over values of their data model: numeric prices and     *)
(* quantities, non-null point codes.                                       *)
(***************************************************************************)
EXTENDS Integers, Sequences, FiniteSets, TLC

\* ------------------------------------------------------------------ bounds
MaxRows == 2        \* rows of the purchase table
MaxQty == 1         \* largest quantity of a purchase row
MaxPriceRows == 3   \* rows of the price table
MaxWeight == 2      \* largest small weight typed into the calculator
MaxPrice == 2       \* largest price per gram typed into the calculator

\* --------------------------------------------------------------- constants
usd_rate == 83
BandLow == 20000
BandHigh == 30000
TopN == 5
SizeScale == 800
SizeMin == 40
KiloFactor == 1000

\* ----------------------------------------------------------------- strings
\* ord() of the ASCII characters the literals are written in
ord ==
    (" " :> 32) @@ ("!" :> 33) @@ ("#" :> 35) @@ ("$" :> 36) @@ ("%" :> 37)
    @@ ("&" :> 38) @@ ("'" :> 39) @@ ("(" :> 40) @@ (")" :> 41) @@ ("*" :> 42) @@ ("+" :> 43)
    @@ ("," :> 44) @@ ("-" :> 45) @@ ("." :> 46) @@ ("/" :> 47) @@ ("0" :> 48) @@ ("1" :> 49)
    @@ ("2" :> 50) @@ ("3" :> 51) @@ ("4" :> 52) @@ ("5" :> 53) @@ ("6" :> 54) @@ ("7" :> 55)
    @@ ("8" :> 56) @@ ("9" :> 57) @@ (":" :> 58) @@ (";" :> 59) @@ ("<" :> 60) @@ ("=" :> 61)
    @@ (">" :> 62) @@ ("?" :> 63) @@ ("@" :> 64) @@ ("A" :> 65) @@ ("B" :> 66) @@ ("C" :> 67)
    @@ ("D" :> 68) @@ ("E" :> 69) @@ ("F" :> 70) @@ ("G" :> 71) @@ ("H" :> 72) @@ ("I" :> 73)
    @@ ("J" :> 74) @@ ("K" :> 75) @@ ("L" :> 76) @@ ("M" :> 77) @@ ("N" :> 78) @@ ("O" :> 79)
    @@ ("P" :> 80) @@ ("Q" :> 81) @@ ("R" :> 82) @@ ("S" :> 83) @@ ("T" :> 84) @@ ("U" :> 85)
    @@ ("V" :> 86) @@ ("W" :> 87) @@ ("X" :> 88) @@ ("Y" :> 89) @@ ("Z" :> 90) @@ ("[" :> 91)
    @@ ("]" :> 93) @@ ("^" :> 94) @@ ("_" :> 95) @@ ("a" :> 97)
    @@ ("b" :> 98) @@ ("c" :> 99) @@ ("d" :> 100) @@ ("e" :> 101) @@ ("f" :> 102) @@ ("g" :> 103)
    @@ ("h" :> 104) @@ ("i" :> 105) @@ ("j" :> 106) @@ ("k" :> 107) @@ ("l" :> 108) @@ ("m" :> 109)
    @@ ("n" :> 110) @@ ("o" :> 111) @@ ("p" :> 112) @@ ("q" :> 113) @@ ("r" :> 114) @@ ("s" :> 115)
    @@ ("t" :> 116) @@ ("u" :> 117) @@ ("v" :> 118) @@ ("w" :> 119) @@ ("x" :> 120) @@ ("y" :> 121)
    @@ ("z" :> 122) @@ ("{" :> 123) @@ ("|" :> 124) @@ ("}" :> 125) @@ ("~" :> 126)

\* a str literal: the sequence of the code points of its characters
Str(chars) == [i \in 1..Len(chars) |-> ord[chars[i]]]

\* the characters str.strip() and str.split() take for whitespace:
\* U+0009-000D, U+001C-0020, U+0085, U+00A0, U+1680, U+2000-200A, U+2028,
\* U+2029, U+202F, U+205F, U+3000
Whitespace ==
    (9..13) \cup (28..32) \cup {133, 160, 5760} \cup (8192..8202)
    \cup {8232, 8233, 8239, 8287, 12288}

\* str.lower() of one character outside ASCII, U+0130 and U+03A3 apart: each
\* <<first, last, step, offset>> sends first, first + step, ..., last to the
\* code point offset further
LowerRuns ==
    {<<192, 214, 1, 32>>, <<216, 222, 1, 32>>, <<256, 302, 2, 1>>,
     <<306, 310, 2, 1>>, <<313, 327, 2, 1>>, <<330, 374, 2, 1>>,
     <<376, 376, 1, -121>>, <<377, 381, 2, 1>>, <<385, 385, 1, 210>>,
     <<386, 388, 2, 1>>, <<390, 390, 1, 206>>, <<391, 391, 1, 1>>,
     <<393, 394, 1, 205>>, <<395, 395, 1, 1>>, <<398, 398, 1, 79>>,
     <<399, 399, 1, 202>>, <<400, 400, 1, 203>>, <<401, 401, 1, 1>>,
     <<403, 403, 1, 205>>, <<404, 404, 1, 207>>, <<406, 406, 1, 211>>,
     <<407, 407, 1, 209>>, <<408, 408, 1, 1>>, <<412, 412, 1, 211>>,
     <<413, 413, 1, 213>>, <<415, 415, 1, 214>>, <<416, 420, 2, 1>>,
     <<422, 422, 1, 218>>, <<423, 423, 1, 1>>, <<425, 425, 1, 218>>,
     <<428, 428, 1, 1>>, <<430, 430, 1, 218>>, <<431, 431, 1, 1>>,
     <<433, 434, 1, 217>>, <<435, 437, 2, 1>>, <<439, 439, 1, 219>>,
     <<440, 440, 1, 1>>, <<444, 444, 1, 1>>, <<452, 452, 1, 2>>,
     <<453, 453, 1, 1>>, <<455, 455, 1, 2>>, <<456, 456, 1, 1>>,
     <<458, 458, 1, 2>>, <<459, 475, 2, 1>>, <<478, 494, 2, 1>>,
     <<497, 497, 1, 2>>, <<498, 500, 2, 1>>, <<502, 502, 1, -97>>,
     <<503, 503, 1, -56>>, <<504, 542, 2, 1>>, <<544, 544, 1, -130>>,
     <<546, 562, 2, 1>>, <<570, 570, 1, 10795>>, <<571, 571, 1, 1>>,
     <<573, 573, 1, -163>>, <<574, 574, 1, 10792>>, <<577, 577, 1, 1>>,
     <<579, 579, 1, -195>>, <<580, 580, 1, 69>>, <<581, 581, 1, 71>>,
     <<582, 590, 2, 1>>, <<880, 882, 2, 1>>, <<886, 886, 1, 1>>,
     <<895, 895, 1, 116>>, <<902, 902, 1, 38>>, <<904, 906, 1, 37>>,
     <<908, 908, 1, 64>>, <<910, 911, 1, 63>>, <<913, 929, 1, 32>>,
     <<932, 939, 1, 32>>, <<975, 975, 1, 8>>, <<984, 1006, 2, 1>>,
     <<1012, 1012, 1, -60>>, <<1015, 1015, 1, 1>>, <<1017, 1017, 1, -7>>,
     <<1018, 1018, 1, 1>>, <<1021, 1023, 1, -130>>, <<1024, 1039, 1, 80>>,
     <<1040, 1071, 1, 32>>, <<1120, 1152, 2, 1>>, <<1162, 1214, 2, 1>>,
     <<1216, 1216, 1, 15>>, <<1217, 1229, 2, 1>>, <<1232, 1326, 2, 1>>,
     <<1329, 1366, 1, 48>>, <<4256, 4293, 1, 7264>>, <<4295, 4295, 1, 7264>>,
     <<4301, 4301, 1, 7264>>, <<5024, 5103, 1, 38864>>, <<5104, 5109, 1, 8>>,
     <<7312, 7354, 1, -3008>>, <<7357, 7359, 1, -3008>>, <<7680, 7828, 2, 1>>,
     <<7838, 7838, 1, -7615>>, <<7840, 7934, 2, 1>>, <<7944, 7951, 1, -8>>,
     <<7960, 7965, 1, -8>>, <<7976, 7983, 1, -8>>, <<7992, 7999, 1, -8>>,
     <<8008, 8013, 1, -8>>, <<8025, 8031, 2, -8>>, <<8040, 8047, 1, -8>>,
     <<8072, 8079, 1, -8>>, <<8088, 8095, 1, -8>>, <<8104, 8111, 1, -8>>,
     <<8120, 8121, 1, -8>>, <<8122, 8123, 1, -74>>, <<8124, 8124, 1, -9>>,
     <<8136, 8139, 1, -86>>, <<8140, 8140, 1, -9>>, <<8152, 8153, 1, -8>>,
     <<8154, 8155, 1, -100>>, <<8168, 8169, 1, -8>>, <<8170, 8171, 1, -112>>,
     <<8172, 8172, 1, -7>>, <<8184, 8185, 1, -128>>, <<8186, 8187, 1, -126>>,
     <<8188, 8188, 1, -9>>, <<8486, 8486, 1, -7517>>, <<8490, 8490, 1, -8383>>,
     <<8491, 8491, 1, -8262>>, <<8498, 8498, 1, 28>>, <<8544, 8559, 1, 16>>,
     <<8579, 8579, 1, 1>>, <<9398, 9423, 1, 26>>, <<11264, 11311, 1, 48>>,
     <<11360, 11360, 1, 1>>, <<11362, 11362, 1, -10743>>, <<11363, 11363, 1, -3814>>,
     <<11364, 11364, 1, -10727>>, <<11367, 11371, 2, 1>>, <<11373, 11373, 1, -10780>>,
     <<11374, 11374, 1, -10749>>, <<11375, 11375, 1, -10783>>, <<11376, 11376, 1, -10782>>,
     <<11378, 11378, 1, 1>>, <<11381, 11381, 1, 1>>, <<11390, 11391, 1, -10815>>,
     <<11392, 11490, 2, 1>>, <<11499, 11501, 2, 1>>, <<11506, 11506, 1, 1>>,
     <<42560, 42604, 2, 1>>, <<42624, 42650, 2, 1>>, <<42786, 42798, 2, 1>>,
     <<42802, 42862, 2, 1>>, <<42873, 42875, 2, 1>>, <<42877, 42877, 1, -35332>>,
     <<42878, 42886, 2, 1>>, <<42891, 42891, 1, 1>>, <<42893, 42893, 1, -42280>>,
     <<42896, 42898, 2, 1>>, <<42902, 42920, 2, 1>>, <<42922, 42922, 1, -42308>>,
     <<42923, 42923, 1, -42319>>, <<42924, 42924, 1, -42315>>, <<42925, 42925, 1, -42305>>,
     <<42926, 42926, 1, -42308>>, <<42928, 42928, 1, -42258>>, <<42929, 42929, 1, -42282>>,
     <<42930, 42930, 1, -42261>>, <<42931, 42931, 1, 928>>, <<42932, 42946, 2, 1>>,
     <<42948, 42948, 1, -48>>, <<42949, 42949, 1, -42307>>, <<42950, 42950, 1, -35384>>,
     <<42951, 42953, 2, 1>>, <<42960, 42960, 1, 1>>, <<42966, 42968, 2, 1>>,
     <<42997, 42997, 1, 1>>, <<65313, 65338, 1, 32>>, <<66560, 66599, 1, 40>>,
     <<66736, 66771, 1, 40>>, <<66928, 66938, 1, 39>>, <<66940, 66954, 1, 39>>,
     <<66956, 66962, 1, 39>>, <<66964, 66965, 1, 39>>, <<68736, 68786, 1, 64>>,
     <<71840, 71871, 1, 32>>, <<93760, 93791, 1, 32>>, <<125184, 125217, 1, 34>>}

\* the ranges <<first, last>> of the characters the final-sigma rule skips
CaseIgnorable ==
    {<<39, 39>>, <<46, 46>>, <<58, 58>>, <<94, 94>>, <<96, 96>>,
     <<168, 168>>, <<173, 173>>, <<175, 175>>, <<180, 180>>, <<183, 184>>,
     <<688, 879>>, <<884, 885>>, <<890, 890>>, <<900, 901>>, <<903, 903>>,
     <<1155, 1161>>, <<1369, 1369>>, <<1375, 1375>>, <<1425, 1469>>, <<1471, 1471>>,
     <<1473, 1474>>, <<1476, 1477>>, <<1479, 1479>>, <<1524, 1524>>, <<1536, 1541>>,
     <<1552, 1562>>, <<1564, 1564>>, <<1600, 1600>>, <<1611, 1631>>, <<1648, 1648>>,
     <<1750, 1757>>, <<1759, 1768>>, <<1770, 1773>>, <<1807, 1807>>, <<1809, 1809>>,
     <<1840, 1866>>, <<1958, 1968>>, <<2027, 2037>>, <<2042, 2042>>, <<2045, 2045>>,
     <<2070, 2093>>, <<2137, 2139>>, <<2184, 2184>>, <<2192, 2193>>, <<2200, 2207>>,
     <<2249, 2306>>, <<2362, 2362>>, <<2364, 2364>>, <<2369, 2376>>, <<2381, 2381>>,
     <<2385, 2391>>, <<2402, 2403>>, <<2417, 2417>>, <<2433, 2433>>, <<2492, 2492>>,
     <<2497, 2500>>, <<2509, 2509>>, <<2530, 2531>>, <<2558, 2558>>, <<2561, 2562>>,
     <<2620, 2620>>, <<2625, 2626>>, <<2631, 2632>>, <<2635, 2637>>, <<2641, 2641>>,
     <<2672, 2673>>, <<2677, 2677>>, <<2689, 2690>>, <<2748, 2748>>, <<2753, 2757>>,
     <<2759, 2760>>, <<2765, 2765>>, <<2786, 2787>>, <<2810, 2815>>, <<2817, 2817>>,
     <<2876, 2876>>, <<2879, 2879>>, <<2881, 2884>>, <<2893, 2893>>, <<2901, 2902>>,
     <<2914, 2915>>, <<2946, 2946>>, <<3008, 3008>>, <<3021, 3021>>, <<3072, 3072>>,
     <<3076, 3076>>, <<3132, 3132>>, <<3134, 3136>>, <<3142, 3144>>, <<3146, 3149>>,
     <<3157, 3158>>, <<3170, 3171>>, <<3201, 3201>>, <<3260, 3260>>, <<3263, 3263>>,
     <<3270, 3270>>, <<3276, 3277>>, <<3298, 3299>>, <<3328, 3329>>, <<3387, 3388>>,
     <<3393, 3396>>, <<3405, 3405>>, <<3426, 3427>>, <<3457, 3457>>, <<3530, 3530>>,
     <<3538, 3540>>, <<3542, 3542>>, <<3633, 3633>>, <<3636, 3642>>, <<3654, 3662>>,
     <<3761, 3761>>, <<3764, 3772>>, <<3782, 3782>>, <<3784, 3789>>, <<3864, 3865>>,
     <<3893, 3893>>, <<3895, 3895>>, <<3897, 3897>>, <<3953, 3966>>, <<3968, 3972>>,
     <<3974, 3975>>, <<3981, 3991>>, <<3993, 4028>>, <<4038, 4038>>, <<4141, 4144>>,
     <<4146, 4151>>, <<4153, 4154>>, <<4157, 4158>>, <<4184, 4185>>, <<4190, 4192>>,
     <<4209, 4212>>, <<4226, 4226>>, <<4229, 4230>>, <<4237, 4237>>, <<4253, 4253>>,
     <<4348, 4348>>, <<4957, 4959>>, <<5906, 5908>>, <<5938, 5939>>, <<5970, 5971>>,
     <<6002, 6003>>, <<6068, 6069>>, <<6071, 6077>>, <<6086, 6086>>, <<6089, 6099>>,
     <<6103, 6103>>, <<6109, 6109>>, <<6155, 6159>>, <<6211, 6211>>, <<6277, 6278>>,
     <<6313, 6313>>, <<6432, 6434>>, <<6439, 6440>>, <<6450, 6450>>, <<6457, 6459>>,
     <<6679, 6680>>, <<6683, 6683>>, <<6742, 6742>>, <<6744, 6750>>, <<6752, 6752>>,
     <<6754, 6754>>, <<6757, 6764>>, <<6771, 6780>>, <<6783, 6783>>, <<6823, 6823>>,
     <<6832, 6862>>, <<6912, 6915>>, <<6964, 6964>>, <<6966, 6970>>, <<6972, 6972>>,
     <<6978, 6978>>, <<7019, 7027>>, <<7040, 7041>>, <<7074, 7077>>, <<7080, 7081>>,
     <<7083, 7085>>, <<7142, 7142>>, <<7144, 7145>>, <<7149, 7149>>, <<7151, 7153>>,
     <<7212, 7219>>, <<7222, 7223>>, <<7288, 7293>>, <<7376, 7378>>, <<7380, 7392>>,
     <<7394, 7400>>, <<7405, 7405>>, <<7412, 7412>>, <<7416, 7417>>, <<7468, 7530>>,
     <<7544, 7544>>, <<7579, 7679>>, <<8125, 8125>>, <<8127, 8129>>, <<8141, 8143>>,
     <<8157, 8159>>, <<8173, 8175>>, <<8189, 8190>>, <<8203, 8207>>, <<8216, 8217>>,
     <<8228, 8228>>, <<8231, 8231>>, <<8234, 8238>>, <<8288, 8292>>, <<8294, 8303>>,
     <<8305, 8305>>, <<8319, 8319>>, <<8336, 8348>>, <<8400, 8432>>, <<11388, 11389>>,
     <<11503, 11505>>, <<11631, 11631>>, <<11647, 11647>>, <<11744, 11775>>, <<11823, 11823>>,
     <<12293, 12293>>, <<12330, 12333>>, <<12337, 12341>>, <<12347, 12347>>, <<12441, 12446>>,
     <<12540, 12542>>, <<40981, 40981>>, <<42232, 42237>>, <<42508, 42508>>, <<42607, 42610>>,
     <<42612, 42621>>, <<42623, 42623>>, <<42652, 42655>>, <<42736, 42737>>, <<42752, 42785>>,
     <<42864, 42864>>, <<42888, 42890>>, <<42994, 42996>>, <<43000, 43001>>, <<43010, 43010>>,
     <<43014, 43014>>, <<43019, 43019>>, <<43045, 43046>>, <<43052, 43052>>, <<43204, 43205>>,
     <<43232, 43249>>, <<43263, 43263>>, <<43302, 43309>>, <<43335, 43345>>, <<43392, 43394>>,
     <<43443, 43443>>, <<43446, 43449>>, <<43452, 43453>>, <<43471, 43471>>, <<43493, 43494>>,
     <<43561, 43566>>, <<43569, 43570>>, <<43573, 43574>>, <<43587, 43587>>, <<43596, 43596>>,
     <<43632, 43632>>, <<43644, 43644>>, <<43696, 43696>>, <<43698, 43700>>, <<43703, 43704>>,
     <<43710, 43711>>, <<43713, 43713>>, <<43741, 43741>>, <<43756, 43757>>, <<43763, 43764>>,
     <<43766, 43766>>, <<43867, 43871>>, <<43881, 43883>>, <<44005, 44005>>, <<44008, 44008>>,
     <<44013, 44013>>, <<64286, 64286>>, <<64434, 64450>>, <<65024, 65039>>, <<65043, 65043>>,
     <<65056, 65071>>, <<65106, 65106>>, <<65109, 65109>>, <<65279, 65279>>, <<65287, 65287>>,
     <<65294, 65294>>, <<65306, 65306>>, <<65342, 65342>>, <<65344, 65344>>, <<65392, 65392>>,
     <<65438, 65439>>, <<65507, 65507>>, <<65529, 65531>>, <<66045, 66045>>, <<66272, 66272>>,
     <<66422, 66426>>, <<67456, 67461>>, <<67463, 67504>>, <<67506, 67514>>, <<68097, 68099>>,
     <<68101, 68102>>, <<68108, 68111>>, <<68152, 68154>>, <<68159, 68159>>, <<68325, 68326>>,
     <<68900, 68903>>, <<69291, 69292>>, <<69446, 69456>>, <<69506, 69509>>, <<69633, 69633>>,
     <<69688, 69702>>, <<69744, 69744>>, <<69747, 69748>>, <<69759, 69761>>, <<69811, 69814>>,
     <<69817, 69818>>, <<69821, 69821>>, <<69826, 69826>>, <<69837, 69837>>, <<69888, 69890>>,
     <<69927, 69931>>, <<69933, 69940>>, <<70003, 70003>>, <<70016, 70017>>, <<70070, 70078>>,
     <<70089, 70092>>, <<70095, 70095>>, <<70191, 70193>>, <<70196, 70196>>, <<70198, 70199>>,
     <<70206, 70206>>, <<70367, 70367>>, <<70371, 70378>>, <<70400, 70401>>, <<70459, 70460>>,
     <<70464, 70464>>, <<70502, 70508>>, <<70512, 70516>>, <<70712, 70719>>, <<70722, 70724>>,
     <<70726, 70726>>, <<70750, 70750>>, <<70835, 70840>>, <<70842, 70842>>, <<70847, 70848>>,
     <<70850, 70851>>, <<71090, 71093>>, <<71100, 71101>>, <<71103, 71104>>, <<71132, 71133>>,
     <<71219, 71226>>, <<71229, 71229>>, <<71231, 71232>>, <<71339, 71339>>, <<71341, 71341>>,
     <<71344, 71349>>, <<71351, 71351>>, <<71453, 71455>>, <<71458, 71461>>, <<71463, 71467>>,
     <<71727, 71735>>, <<71737, 71738>>, <<71995, 71996>>, <<71998, 71998>>, <<72003, 72003>>,
     <<72148, 72151>>, <<72154, 72155>>, <<72160, 72160>>, <<72193, 72202>>, <<72243, 72248>>,
     <<72251, 72254>>, <<72263, 72263>>, <<72273, 72278>>, <<72281, 72283>>, <<72330, 72342>>,
     <<72344, 72345>>, <<72752, 72758>>, <<72760, 72765>>, <<72767, 72767>>, <<72850, 72871>>,
     <<72874, 72880>>, <<72882, 72883>>, <<72885, 72886>>, <<73009, 73014>>, <<73018, 73018>>,
     <<73020, 73021>>, <<73023, 73029>>, <<73031, 73031>>, <<73104, 73105>>, <<73109, 73109>>,
     <<73111, 73111>>, <<73459, 73460>>, <<78896, 78904>>, <<92912, 92916>>, <<92976, 92982>>,
     <<92992, 92995>>, <<94031, 94031>>, <<94095, 94111>>, <<94176, 94177>>, <<94179, 94180>>,
     <<110576, 110579>>, <<110581, 110587>>, <<110589, 110590>>, <<113821, 113822>>, <<113824, 113827>>,
     <<118528, 118573>>, <<118576, 118598>>, <<119143, 119145>>, <<119155, 119170>>, <<119173, 119179>>,
     <<119210, 119213>>, <<119362, 119364>>, <<121344, 121398>>, <<121403, 121452>>, <<121461, 121461>>,
     <<121476, 121476>>, <<121499, 121503>>, <<121505, 121519>>, <<122880, 122886>>, <<122888, 122904>>,
     <<122907, 122913>>, <<122915, 122916>>, <<122918, 122922>>, <<123184, 123197>>, <<123566, 123566>>,
     <<123628, 123631>>, <<125136, 125142>>, <<125252, 125259>>, <<127995, 127999>>, <<917505, 917505>>,
     <<917536, 917631>>, <<917760, 917999>>}

\* the ranges <<first, last>> of the cased characters the rule does not skip
Cased ==
    {<<65, 90>>, <<97, 122>>, <<170, 170>>, <<181, 181>>, <<186, 186>>,
     <<192, 214>>, <<216, 246>>, <<248, 442>>, <<444, 447>>, <<452, 659>>,
     <<661, 687>>, <<880, 883>>, <<886, 887>>, <<891, 893>>, <<895, 895>>,
     <<902, 902>>, <<904, 906>>, <<908, 908>>, <<910, 929>>, <<931, 1013>>,
     <<1015, 1153>>, <<1162, 1327>>, <<1329, 1366>>, <<1376, 1416>>, <<4256, 4293>>,
     <<4295, 4295>>, <<4301, 4301>>, <<4304, 4346>>, <<4349, 4351>>, <<5024, 5109>>,
     <<5112, 5117>>, <<7296, 7304>>, <<7312, 7354>>, <<7357, 7359>>, <<7424, 7467>>,
     <<7531, 7543>>, <<7545, 7578>>, <<7680, 7957>>, <<7960, 7965>>, <<7968, 8005>>,
     <<8008, 8013>>, <<8016, 8023>>, <<8025, 8025>>, <<8027, 8027>>, <<8029, 8029>>,
     <<8031, 8061>>, <<8064, 8116>>, <<8118, 8124>>, <<8126, 8126>>, <<8130, 8132>>,
     <<8134, 8140>>, <<8144, 8147>>, <<8150, 8155>>, <<8160, 8172>>, <<8178, 8180>>,
     <<8182, 8188>>, <<8450, 8450>>, <<8455, 8455>>, <<8458, 8467>>, <<8469, 8469>>,
     <<8473, 8477>>, <<8484, 8484>>, <<8486, 8486>>, <<8488, 8488>>, <<8490, 8493>>,
     <<8495, 8500>>, <<8505, 8505>>, <<8508, 8511>>, <<8517, 8521>>, <<8526, 8526>>,
     <<8544, 8575>>, <<8579, 8580>>, <<9398, 9449>>, <<11264, 11387>>, <<11390, 11492>>,
     <<11499, 11502>>, <<11506, 11507>>, <<11520, 11557>>, <<11559, 11559>>, <<11565, 11565>>,
     <<42560, 42605>>, <<42624, 42651>>, <<42786, 42863>>, <<42865, 42887>>, <<42891, 42894>>,
     <<42896, 42954>>, <<42960, 42961>>, <<42963, 42963>>, <<42965, 42969>>, <<42997, 42998>>,
     <<43002, 43002>>, <<43824, 43866>>, <<43872, 43880>>, <<43888, 43967>>, <<64256, 64262>>,
     <<64275, 64279>>, <<65313, 65338>>, <<65345, 65370>>, <<66560, 66639>>, <<66736, 66771>>,
     <<66776, 66811>>, <<66928, 66938>>, <<66940, 66954>>, <<66956, 66962>>, <<66964, 66965>>,
     <<66967, 66977>>, <<66979, 66993>>, <<66995, 67001>>, <<67003, 67004>>, <<68736, 68786>>,
     <<68800, 68850>>, <<71840, 71903>>, <<93760, 93823>>, <<119808, 119892>>, <<119894, 119964>>,
     <<119966, 119967>>, <<119970, 119970>>, <<119973, 119974>>, <<119977, 119980>>, <<119982, 119993>>,
     <<119995, 119995>>, <<119997, 120003>>, <<120005, 120069>>, <<120071, 120074>>, <<120077, 120084>>,
     <<120086, 120092>>, <<120094, 120121>>, <<120123, 120126>>, <<120128, 120132>>, <<120134, 120134>>,
     <<120138, 120144>>, <<120146, 120485>>, <<120488, 120512>>, <<120514, 120538>>, <<120540, 120570>>,
     <<120572, 120596>>, <<120598, 120628>>, <<120630, 120654>>, <<120656, 120686>>, <<120688, 120712>>,
     <<120714, 120744>>, <<120746, 120770>>, <<120772, 120779>>, <<122624, 122633>>, <<122635, 122654>>,
     <<125184, 125251>>, <<127280, 127305>>, <<127312, 127337>>, <<127344, 127369>>}

InRanges(c, ranges) == \E r \in ranges : r[1] <= c /\ c <= r[2]

\* str.lower() of the one-character str c, U+03A3 apart: a sequence, U+0130
\* giving two characters
LowerChar(c) ==
    IF c < 128 THEN (IF 65 <= c /\ c <= 90 THEN <<c + 32>> ELSE <<c>>)
    ELSE IF c = 304 THEN <<105, 775>>
    ELSE LET hit == {r \in LowerRuns :
                        r[1] <= c /\ c <= r[2] /\ (c - r[1]) % r[3] = 0}
         IN  IF hit = {} THEN <<c>> ELSE <<c + (CHOOSE r \in hit : TRUE)[4]>>

RECURSIVE CasedBefore(_, _)
\* whether the nearest character before position i that the rule does not
\* skip is cased
CasedBefore(s, i) ==
    IF i <= 1 THEN FALSE
    ELSE IF InRanges(s[i - 1], CaseIgnorable) THEN CasedBefore(s, i - 1)
    ELSE InRanges(s[i - 1], Cased)

RECURSIVE CasedAfter(_, _)
\* the same for the nearest character after position i
CasedAfter(s, i) ==
    IF i >= Len(s) THEN FALSE
    ELSE IF InRanges(s[i + 1], CaseIgnorable) THEN CasedAfter(s, i + 1)
    ELSE InRanges(s[i + 1], Cased)

\* U+03A3 lowers to the final sigma U+03C2 at the end of a word and to
\* U+03C3 elsewhere
LowerSigma(s, i) ==
    IF CasedBefore(s, i) /\ ~CasedAfter(s, i) THEN <<962>> ELSE <<963>>

RECURSIVE LowerFrom(_, _)
LowerFrom(s, i) ==
    IF i > Len(s) THEN <<>>
    ELSE (IF s[i] = 931 THEN LowerSigma(s, i) ELSE LowerChar(s[i]))
         \o LowerFrom(s, i + 1)

\* str.lower()
lower(s) == LowerFrom(s, 1)

\* sub in s
Contains(s, sub) ==
    \E i \in 1..(Len(s) - Len(sub) + 1) : SubSeq(s, i, i + Len(sub) - 1) = sub

\* str.strip(): leading and trailing whitespace removed
strip(s) ==
    LET keep == {i \in 1..Len(s) : s[i] \notin Whitespace}
    IN  IF keep = {} THEN <<>>
        ELSE SubSeq(s, CHOOSE i \in keep : \A j \in keep : i <= j,
                       CHOOSE i \in keep : \A j \in keep : j <= i)

\* str.split(): the maximal runs of non-whitespace characters, in order
RECURSIVE SplitFrom(_, _, _)
SplitFrom(s, i, word) ==
    IF i > Len(s)
    THEN IF word = <<>> THEN <<>> ELSE <<word>>
    ELSE IF s[i] \in Whitespace
         THEN IF word = <<>>
              THEN SplitFrom(s, i + 1, <<>>)
              ELSE <<word>> \o SplitFrom(s, i + 1, <<>>)
         ELSE SplitFrom(s, i + 1, Append(word, s[i]))

split(s) == SplitFrom(s, 1, <<>>)

\* " ".join(words)
RECURSIVE join(_)
join(words) ==
    IF words = <<>> THEN <<>>
    ELSE IF Len(words) = 1 THEN words[1]
    ELSE words[1] \o <<32>> \o join(Tail(words))

\* The cells of a column that are no str: the null (NaN) of a name cell, and
\* the number n of a column pandas read as whole numbers (int64) or as floats
\* with whole values; no code point is negative.
NoName == <<-1>>
IntCell(n) == <<-2, n>>
FloatCell(n) == <<-3, n>>
IsStrCell(value) == value = <<>> \/ value[1] >= 0

RECURSIVE Digits(_)
\* the decimal digits of n > 0
Digits(n) ==
    IF n < 10 THEN <<48 + n>> ELSE Append(Digits(n \div 10), 48 + (n % 10))

\* str(n) of an int
StrOfInt(n) ==
    IF n = 0 THEN <<48>> ELSE IF n < 0 THEN <<45>> \o Digits(-n) ELSE Digits(n)

\* str(value or ""): a falsy value ("", 0, 0.0) gives "", NaN is truthy and
\* gives "nan", a whole float n gives "n.0"
str_or_empty(value) ==
    IF IsStrCell(value) THEN value
    ELSE IF value = NoName THEN Str(<<"n","a","n">>)
    ELSE IF value[2] = 0 THEN <<>>
    ELSE IF value[1] = -2 THEN StrOfInt(value[2])
    ELSE StrOfInt(value[2]) \o Str(<<".","0">>)

\* lines 96-99: str(value or "").strip(), then " ".join(value.split())
normalize_state_name(value) == join(split(strip(str_or_empty(value))))

H_State == Str(<<"S","t","a","t","e">>)
H_STATE == Str(<<"S","T","A","T","E">>)
H_ST_NM == Str(<<"S","T","_","N","M">>)
H_geometry == Str(<<"g","e","o","m","e","t","r","y">>)
H_Silver_Purchased_kg ==
    Str(<<"S","i","l","v","e","r","_","P","u","r","c","h","a","s","e","d","_","k","g">>)
H_Quantity_kg == Str(<<"Q","u","a","n","t","i","t","y","_","k","g">>)
H_Region == Str(<<"R","e","g","i","o","n">>)
H_state_code == Str(<<"s","t","a","t","e","_","c","o","d","e">>)
S_state == Str(<<"s","t","a","t","e">>)
S_silver == Str(<<"s","i","l","v","e","r">>)
S_kg == Str(<<"k","g">>)

\* The object-column null (NaN) of a code cell.
NoCode == "NaN"

STATE_NAME_TO_CODE ==
    (Str(<<"A","n","d","h","r","a"," ","P","r","a","d","e","s","h">>) :> "AP")
    @@ (Str(<<"A","r","u","n","a","c","h","a","l"," ","P","r","a","d","e","s","h">>) :> "AR")
    @@ (Str(<<"A","s","s","a","m">>) :> "AS")
    @@ (Str(<<"B","i","h","a","r">>) :> "BR")
    @@ (Str(<<"C","h","h","a","t","t","i","s","g","a","r","h">>) :> "CG")
    @@ (Str(<<"G","o","a">>) :> "GA")
    @@ (Str(<<"G","u","j","a","r","a","t">>) :> "GJ")
    @@ (Str(<<"H","a","r","y","a","n","a">>) :> "HR")
    @@ (Str(<<"H","i","m","a","c","h","a","l"," ","P","r","a","d","e","s","h">>) :> "HP")
    @@ (Str(<<"J","h","a","r","k","h","a","n","d">>) :> "JH")
    @@ (Str(<<"K","a","r","n","a","t","a","k","a">>) :> "KA")
    @@ (Str(<<"K","e","r","a","l","a">>) :> "KL")
    @@ (Str(<<"M","a","d","h","y","a"," ","P","r","a","d","e","s","h">>) :> "MP")
    @@ (Str(<<"M","a","h","a","r","a","s","h","t","r","a">>) :> "MH")
    @@ (Str(<<"M","a","n","i","p","u","r">>) :> "MN")
    @@ (Str(<<"M","e","g","h","a","l","a","y","a">>) :> "ML")
    @@ (Str(<<"M","i","z","o","r","a","m">>) :> "MZ")
    @@ (Str(<<"N","a","g","a","l","a","n","d">>) :> "NL")
    @@ (Str(<<"O","d","i","s","h","a">>) :> "OR")
    @@ (Str(<<"P","u","n","j","a","b">>) :> "PB")
    @@ (Str(<<"R","a","j","a","s","t","h","a","n">>) :> "RJ")
    @@ (Str(<<"S","i","k","k","i","m">>) :> "SK")
    @@ (Str(<<"T","a","m","i","l"," ","N","a","d","u">>) :> "TN")
    @@ (Str(<<"T","e","l","a","n","g","a","n","a">>) :> "TG")
    @@ (Str(<<"T","r","i","p","u","r","a">>) :> "TR")
    @@ (Str(<<"U","t","t","a","r"," ","P","r","a","d","e","s","h">>) :> "UP")
    @@ (Str(<<"U","t","t","a","r","a","k","h","a","n","d">>) :> "UK")
    @@ (Str(<<"W","e","s","t"," ","B","e","n","g","a","l">>) :> "WB")
    @@ (Str(<<"D","e","l","h","i">>) :> "DL")
    @@ (Str(<<"J","a","m","m","u"," ","&"," ","K","a","s","h","m","i","r">>) :> "JK")
    @@ (Str(<<"J","a","m","m","u"," ","a","n","d"," ","K","a","s","h","m","i","r">>) :> "JK")
    @@ (Str(<<"L","a","d","a","k","h">>) :> "LA")

\* Series.map(STATE_NAME_TO_CODE) on one cell: a name that is no key gives NaN
MapCode(name) ==
    IF name \in DOMAIN STATE_NAME_TO_CODE THEN STATE_NAME_TO_CODE[name] ELSE NoCode

\* ------------------------------------------------------------------ floats
\* Natural numbers of any size, for the 53-bit mantissas and their products:
\* the limbs in base 2^15, least significant first, no leading zero limb.
Base == 2^15

RECURSIVE Big(_)
\* the limbs of the natural number n
Big(n) == IF n = 0 THEN <<>> ELSE <<n % Base>> \o Big(n \div Base)

\* a without its leading zero limbs
Trim(a) ==
    LET nz == {i \in 1..Len(a) : a[i] # 0}
    IN  IF nz = {} THEN <<>>
        ELSE SubSeq(a, 1, CHOOSE i \in nz : \A j \in nz : j <= i)

Limb(a, i) == IF i <= Len(a) THEN a[i] ELSE 0

RECURSIVE AddFrom(_, _, _, _)
AddFrom(a, b, i, carry) ==
    IF i > Len(a) /\ i > Len(b) THEN (IF carry = 0 THEN <<>> ELSE <<carry>>)
    ELSE LET s == Limb(a, i) + Limb(b, i) + carry
         IN  <<s % Base>> \o AddFrom(a, b, i + 1, s \div Base)
BigAdd(a, b) == AddFrom(a, b, 1, 0)

RECURSIVE SubFrom(_, _, _, _)
SubFrom(a, b, i, borrow) ==
    IF i > Len(a) THEN <<>>
    ELSE LET d == Limb(a, i) - Limb(b, i) - borrow
         IN  <<(d + Base) % Base>>
             \o SubFrom(a, b, i + 1, IF d < 0 THEN 1 ELSE 0)
\* a - b for a >= b
BigSub(a, b) == Trim(SubFrom(a, b, 1, 0))

RECURSIVE CmpFrom(_, _, _)
CmpFrom(a, b, i) ==
    IF i = 0 THEN 0
    ELSE IF a[i] > b[i] THEN 1
    ELSE IF a[i] < b[i] THEN -1
    ELSE CmpFrom(a, b, i - 1)
\* -1, 0 or 1 as a < b, a = b or a > b
BigCmp(a, b) ==
    IF Len(a) > Len(b) THEN 1
    ELSE IF Len(a) < Len(b) THEN -1
    ELSE CmpFrom(a, b, Len(a))

RECURSIVE MulLimbFrom(_, _, _, _)
MulLimbFrom(a, d, i, carry) ==
    IF i > Len(a) THEN (IF carry = 0 THEN <<>> ELSE <<carry>>)
    ELSE LET s == a[i] * d + carry
         IN  <<s % Base>> \o MulLimbFrom(a, d, i + 1, s \div Base)
\* a x d for one limb d
MulLimb(a, d) == IF d = 0 THEN <<>> ELSE MulLimbFrom(a, d, 1, 0)

RECURSIVE BigMul(_, _)
BigMul(a, b) ==
    IF a = <<>> \/ b = <<>> THEN <<>>
    ELSE LET rest == BigMul(a, Tail(b))
         IN  BigAdd(MulLimb(a, Head(b)),
                    IF rest = <<>> THEN <<>> ELSE <<0>> \o rest)

\* a x 2^k
Shl(a, k) ==
    IF a = <<>> THEN <<>>
    ELSE [i \in 1..(k \div 15) |-> 0] \o MulLimb(a, 2^(k % 15))

\* a \div 2^k
Shr(a, k) ==
    LET w == k \div 15
        r == k % 15
    IN  IF Len(a) <= w THEN <<>>
        ELSE Trim([i \in 1..(Len(a) - w) |->
                      (a[i + w] \div 2^r) + (Limb(a, i + w + 1) % 2^r) * 2^(15 - r)])

\* a % 2^k
LowBits(a, k) ==
    LET w == k \div 15
        r == k % 15
    IN  Trim([i \in 1..(w + 1) |->
                 IF i <= w THEN Limb(a, i) ELSE Limb(a, i) % 2^r])

RECURSIVE SmallBitLen(_)
SmallBitLen(n) == IF n = 0 THEN 0 ELSE 1 + SmallBitLen(n \div 2)
\* the number of bits of a: 0 for 0
BitLen(a) ==
    IF a = <<>> THEN 0 ELSE 15 * (Len(a) - 1) + SmallBitLen(a[Len(a)])

\* bit i of a, bit 1 being the lowest
Bit(a, i) == (Limb(a, (i - 1) \div 15 + 1) \div 2^((i - 1) % 15)) % 2

RECURSIVE SmallTrailingZeros(_)
SmallTrailingZeros(n) == IF n % 2 = 1 THEN 0 ELSE 1 + SmallTrailingZeros(n \div 2)
\* how many zero bits a # 0 has below its lowest set bit
TrailingZeros(a) ==
    LET nz == {i \in 1..Len(a) : a[i] # 0}
        low == CHOOSE i \in nz : \A j \in nz : i <= j
    IN  15 * (low - 1) + SmallTrailingZeros(a[low])

RECURSIVE QDigit(_, _, _, _)
\* the largest limb q with d x q <= r, found bit by bit from the highest
QDigit(r, d, bit, acc) ==
    IF bit < 0 THEN acc
    ELSE IF BigCmp(MulLimb(d, acc + 2^bit), r) <= 0
         THEN QDigit(r, d, bit - 1, acc + 2^bit)
    ELSE QDigit(r, d, bit - 1, acc)

RECURSIVE DivFrom(_, _, _)
\* long division of the limbs j and above of n by d, limb j the last one
\* brought down
DivFrom(n, d, j) ==
    IF j > Len(n) THEN [q |-> <<>>, r |-> <<>>]
    ELSE LET h == DivFrom(n, d, j + 1)
             r == Trim(<<n[j]>> \o h.r)
             digit == QDigit(r, d, 14, 0)
         IN  [q |-> Trim(<<digit>> \o h.q), r |-> BigSub(r, MulLimb(d, digit))]
\* quotient and remainder of n by d # 0
DivMod(n, d) == DivFrom(n, d, 1)

\* A float (IEEE double): NaN, an infinity, or the finite (-1)^neg x m x 2^e
\* with m = 0 and e = 0, or m odd, m < 2^53, e >= -1074 and m x 2^e < 2^1024.
NaN == [kind |-> "nan", neg |-> FALSE, m |-> <<>>, e |-> 0]
Inf(neg) == [kind |-> "inf", neg |-> neg, m |-> <<>>, e |-> 0]
Zero(neg) == [kind |-> "fin", neg |-> neg, m |-> <<>>, e |-> 0]
IsNaN(r) == r.kind = "nan"
IsZero(r) == r.kind = "fin" /\ r.m = <<>>

\* the double m x 2^e for m that needs no rounding; past the range an infinity
Finite(neg, m, e) ==
    IF m = <<>> THEN Zero(neg)
    ELSE IF BitLen(m) + e > 1024 THEN Inf(neg)
    ELSE LET z == TrailingZeros(m)
         IN  [kind |-> "fin", neg |-> neg, m |-> Shr(m, z), e |-> e + z]

\* the double nearest to m x 2^e, or to a value just above it when sticky:
\* 53 bits are kept, fewer below 2^-1022, the rest rounds to nearest, ties to
\* the even mantissa
Round(neg, m, e, sticky) ==
    IF m = <<>> THEN Zero(neg)
    ELSE LET ulp == IF BitLen(m) + e - 53 > -1074 THEN BitLen(m) + e - 53
                    ELSE -1074
             s == ulp - e
         IN  IF s <= 0 THEN Finite(neg, m, e)
             ELSE IF s > BitLen(m) + 1 THEN Zero(neg)
             ELSE LET keep == Shr(m, s)
                      c == BigCmp(LowBits(m, s), Shl(<<1>>, s - 1))
                      up == c > 0 \/ (c = 0 /\ (sticky \/ Bit(keep, 1) = 1))
                  IN  Finite(neg, IF up THEN BigAdd(keep, <<1>>) ELSE keep, ulp)

\* float(i) of an int
Float(i) == Finite(i < 0, Big(IF i < 0 THEN -i ELSE i), 0)

\* the double i x 2^k (math.ldexp)
ldexp(i, k) == Round(i < 0, Big(IF i < 0 THEN -i ELSE i), k, FALSE)

\* a * b
RatMul(a, b) ==
    IF IsNaN(a) \/ IsNaN(b) THEN NaN
    ELSE IF (a.kind = "inf" /\ IsZero(b)) \/ (IsZero(a) /\ b.kind = "inf") THEN NaN
    ELSE IF a.kind = "inf" \/ b.kind = "inf" THEN Inf(a.neg # b.neg)
    ELSE Round(a.neg # b.neg, BigMul(a.m, b.m), a.e + b.e, FALSE)

\* a / b as numpy divides: x/0 is an infinity, 0/0 is NaN
RatDiv(a, b) ==
    IF IsNaN(a) \/ IsNaN(b) THEN NaN
    ELSE IF a.kind = "inf" THEN (IF b.kind = "inf" THEN NaN ELSE Inf(a.neg # b.neg))
    ELSE IF b.kind = "inf" THEN Zero(a.neg # b.neg)
    ELSE IF IsZero(b) THEN (IF IsZero(a) THEN NaN ELSE Inf(a.neg # b.neg))
    ELSE IF IsZero(a) THEN Zero(a.neg # b.neg)
    ELSE LET need == BitLen(b.m) + 55 - BitLen(a.m)
             k == IF need > 0 THEN need ELSE 0
             d == DivMod(Shl(a.m, k), b.m)
         IN  Round(a.neg # b.neg, d.q, a.e - b.e - k, d.r # <<>>)

\* the nearest double to n/d: the float a decimal literal or typed value gives
Rat(n, d) == RatDiv(Float(n), Float(d))

\* a plus (away) or minus (~away) a value below 2^-60 of a's last mantissa
\* bit: the exact sum lies just above a x 2^60, or above a x 2^60 - 1
AddTiny(a, away) ==
    Round(a.neg, IF away THEN Shl(a.m, 60) ELSE BigSub(Shl(a.m, 60), <<1>>),
          a.e - 60, TRUE)

\* a + b
RatAdd(a, b) ==
    IF IsNaN(a) \/ IsNaN(b) THEN NaN
    ELSE IF a.kind = "inf"
         THEN (IF b.kind = "inf" /\ b.neg # a.neg THEN NaN ELSE a)
    ELSE IF b.kind = "inf" THEN b
    ELSE IF IsZero(a) THEN (IF IsZero(b) THEN Zero(a.neg /\ b.neg) ELSE b)
    ELSE IF IsZero(b) THEN a
    ELSE IF a.e - b.e >= 120 THEN AddTiny(a, a.neg = b.neg)
    ELSE IF b.e - a.e >= 120 THEN AddTiny(b, a.neg = b.neg)
    ELSE LET e == IF a.e < b.e THEN a.e ELSE b.e
             x == Shl(a.m, a.e - e)
             y == Shl(b.m, b.e - e)
             c == BigCmp(x, y)
         IN  IF a.neg = b.neg THEN Round(a.neg, BigAdd(x, y), e, FALSE)
             ELSE IF c = 0 THEN Zero(FALSE)
             ELSE IF c > 0 THEN Round(a.neg, BigSub(x, y), e, FALSE)
             ELSE Round(b.neg, BigSub(y, x), e, FALSE)

\* -1, 0 or 1 as |a| < |b|, |a| = |b| or |a| > |b|, neither being NaN
MagCmp(a, b) ==
    IF a.kind = "inf" THEN (IF b.kind = "inf" THEN 0 ELSE 1)
    ELSE IF b.kind = "inf" THEN -1
    ELSE IF BitLen(a.m) + a.e # BitLen(b.m) + b.e
         THEN (IF IsZero(a) THEN -1
               ELSE IF IsZero(b) THEN 1
               ELSE IF BitLen(a.m) + a.e > BitLen(b.m) + b.e THEN 1 ELSE -1)
    ELSE LET e == IF a.e < b.e THEN a.e ELSE b.e
         IN  BigCmp(Shl(a.m, a.e - e), Shl(b.m, b.e - e))

\* -1, 0 or 1 as a is below 0, a zero, or above 0
Sgn(a) == IF IsZero(a) THEN 0 ELSE IF a.neg THEN -1 ELSE 1

\* a <= b, false when either is NaN
RatLeq(a, b) ==
    /\ ~IsNaN(a)
    /\ ~IsNaN(b)
    /\ IF Sgn(a) # Sgn(b) THEN Sgn(a) < Sgn(b)
       ELSE Sgn(a) * MagCmp(a, b) <= 0

\* a == b, false when either is NaN; 0.0 == -0.0
RatEq(a, b) ==
    /\ ~IsNaN(a)
    /\ ~IsNaN(b)
    /\ Sgn(a) = Sgn(b)
    /\ MagCmp(a, b) = 0

\* Series.clip(lo, hi): NaN stays NaN
clip(r, lo, hi) ==
    IF IsNaN(r) THEN r
    ELSE IF RatLeq(r, lo) THEN lo
    ELSE IF RatLeq(hi, r) THEN hi ELSE r

\* ------------------------------------------------------------------ frames
\* A table is [columns |-> headers, rows |-> tuples aligned with the headers].
HasCol(df, h) == \E i \in 1..Len(df.columns) : df.columns[i] = h
ColIndex(df, h) ==
    CHOOSE i \in 1..Len(df.columns) :
        df.columns[i] = h /\ \A j \in 1..(i - 1) : df.columns[j] # h
Cell(df, r, h) == df.rows[r][ColIndex(df, h)]

\* df[h] = vals: replaces the column h, or appends it when df has none
SetColumn(df, h, vals) ==
    IF HasCol(df, h)
    THEN [df EXCEPT !.rows = [r \in 1..Len(df.rows) |->
                                 [df.rows[r] EXCEPT ![ColIndex(df, h)] = vals[r]]]]
    ELSE [df EXCEPT !.columns = Append(df.columns, h),
                    !.rows = [r \in 1..Len(df.rows) |-> Append(df.rows[r], vals[r])]]

RECURSIVE Filter(_, _, _)
\* the elements of seq whose position is in keep, order kept
Filter(seq, keep, i) ==
    IF i > Len(seq) THEN <<>>
    ELSE (IF i \in keep THEN <<seq[i]>> ELSE <<>>) \o Filter(seq, keep, i + 1)

RECURSIVE SumSeq(_)
SumSeq(seq) == IF seq = <<>> THEN 0 ELSE Head(seq) + SumSeq(Tail(seq))

RECURSIVE Unique(_, _)
\* Series.unique(): the distinct values in order of first appearance
Unique(seq, seen) ==
    IF seq = <<>> THEN <<>>
    ELSE IF Head(seq) \in seen THEN Unique(Tail(seq), seen)
    ELSE <<Head(seq)>> \o Unique(Tail(seq), seen \cup {Head(seq)})

\* ---------------------------------------------------------- cost calculator
Units == {"grams", "kilograms"}
Currencies == {"INR", "USD"}

weight_in_grams(weight, unit) ==
    IF unit = "grams" THEN weight ELSE RatMul(weight, Float(KiloFactor))

total_cost_inr(weight, unit, price_per_gram) ==
    RatMul(weight_in_grams(weight, unit), price_per_gram)

total_cost(weight, unit, price_per_gram, currency) ==
    IF currency = "USD"
    THEN RatDiv(total_cost_inr(weight, unit, price_per_gram), Float(usd_rate))
    ELSE total_cost_inr(weight, unit, price_per_gram)

\* ------------------------------------------------------------ price filter
BandLE == "<= 20,000"
BandMid == "20,000 - 30,000"
BandGE == ">= 30,000"
Bands == {BandLE, BandMid, BandGE}

\* the mask with the middle band closed at its lower end
InBand_closed_middle(price, price_filter) ==
    IF price_filter = BandLE THEN price <= BandLow
    ELSE IF price_filter = BandMid THEN price >= BandLow /\ price < BandHigh
    ELSE price >= BandHigh

\* the boolean mask of one row under the selected band
InBand(price, price_filter) ==
    IF price_filter = BandLE THEN price <= BandLow
    ELSE IF price_filter = BandMid THEN price > BandLow /\ price < BandHigh
    ELSE price >= BandHigh

\* price_df[mask]: rows keep their index label and their order
filtered_price(price_df, price_filter) ==
    Filter(price_df,
           {i \in 1..Len(price_df) :
               InBand(price_df[i].Silver_Price_INR_per_kg, price_filter)}, 1)

\* pd.read_csv of the price file: a RangeIndex 0..n-1 labels the rows
read_price_csv(file) ==
    [i \in 1..Len(file) |->
        [idx |-> i - 1, Year |-> file[i][1], Silver_Price_INR_per_kg |-> file[i][2]]]

\* ------------------------------------------------------------ map pipeline
MinOf(S) == CHOOSE x \in S : \A y \in S : x <= y

\* the first column of the point layer whose lower-cased name is "state";
\* <<>> stands for None
capitals_code_col(columns) ==
    LET hits == {i \in 1..Len(columns) : lower(columns[i]) = S_state}
    IN  IF hits = {} THEN <<>> ELSE <<columns[MinOf(hits)]>>

\* sales_df["State"] = sales_df["State"].map(normalize_state_name)
\* sales_df["state_code"] = sales_df["State"].map(STATE_NAME_TO_CODE)
reconcile(sales_df) ==
    LET names == [r \in 1..Len(sales_df.rows) |->
                     normalize_state_name(Cell(sales_df, r, H_State))]
        named == SetColumn(sales_df, H_State, names)
    IN  SetColumn(named, H_state_code,
                  [r \in 1..Len(sales_df.rows) |-> MapCode(names[r])])

\* the unmapped names without .unique()
missing_state_codes_repeated(sales_df) ==
    LET unmapped == Filter(sales_df.rows,
                           {r \in 1..Len(sales_df.rows) :
                               Cell(sales_df, r, H_state_code) = NoCode}, 1)
    IN  [i \in 1..Len(unmapped) |-> unmapped[i][ColIndex(sales_df, H_State)]]

\* sales_df[sales_df["state_code"].isna()]["State"].unique().tolist()
missing_state_codes(sales_df) ==
    LET unmapped == Filter(sales_df.rows,
                           {r \in 1..Len(sales_df.rows) :
                               Cell(sales_df, r, H_state_code) = NoCode}, 1)
    IN  Unique([i \in 1..Len(unmapped) |-> unmapped[i][ColIndex(sales_df, H_State)]],
               {})

\* india_capitals[[capitals_code_col, "geometry"]].copy(), the code column
\* renamed to state_code
capitals_frame(india_capitals, code_col) ==
    [crs |-> india_capitals.crs,
     rows |-> [r \in 1..Len(india_capitals.rows) |->
                  [state_code |-> Cell(india_capitals, r, code_col),
                   geometry |-> Cell(india_capitals, r, H_geometry)]]]

\* sales_df[["State", "state_code", "Silver_Purchased_kg"]]
sales_for_merge(sales_df) ==
    [r \in 1..Len(sales_df.rows) |->
        [State |-> Cell(sales_df, r, H_State),
         state_code |-> Cell(sales_df, r, H_state_code),
         Silver_Purchased_kg |-> Cell(sales_df, r, H_Silver_Purchased_kg)]]

\* the rows one left row gives: one per right row with an equal key, in the
\* right table's order, or one row of nulls when no key is equal
MergeOne(l, right) ==
    LET hits == Filter(right,
                       {j \in 1..Len(right) : right[j].state_code = l.state_code}, 1)
    IN  IF hits = <<>>
        THEN <<[state_code |-> l.state_code, geometry |-> l.geometry,
                State |-> NoName, Silver_Purchased_kg |-> NaN]>>
        ELSE [j \in 1..Len(hits) |->
                 [state_code |-> l.state_code, geometry |-> l.geometry,
                  State |-> hits[j].State,
                  Silver_Purchased_kg |-> Float(hits[j].Silver_Purchased_kg)]]

RECURSIVE MergeRows(_, _)
MergeRows(left, right) ==
    IF left = <<>> THEN <<>>
    ELSE MergeOne(Head(left), right) \o MergeRows(Tail(left), right)

\* capitals.merge(sales_df[[...]], on="state_code", how="left")
merged_map(capitals, sales_df) ==
    [crs |-> capitals.crs,
     rows |-> MergeRows(capitals.rows, sales_for_merge(sales_df))]

\* ------------------------------------------------------------------- CRS
WGS84 == "EPSG:4326"
NoCRS == "none"

\* layer.set_crs(crs): a new layer with the label, coordinates untouched
set_crs(layer, crs) == [layer EXCEPT !.crs = crs]

\* whether layer.to_crs(target) raises: a layer already in the target is
\* returned as it is, any other asks the projection library to transform
to_crs_raises(layer, target, proj_ok) == layer.crs # target /\ ~proj_ok

\* layer.to_crs(target), when it does not raise
to_crs(layer, target) == [layer EXCEPT !.crs = target]

\* india_boundary after lines 162-163
boundary_with_crs(india_boundary) ==
    IF india_boundary.crs = NoCRS THEN set_crs(india_boundary, WGS84)
    ELSE india_boundary

\* merged_map after lines 164-165: india_capitals.crs or "EPSG:4326"
merged_with_crs(merged, india_capitals) ==
    IF merged.crs = NoCRS
    THEN set_crs(merged, IF india_capitals.crs = NoCRS THEN WGS84
                         ELSE india_capitals.crs)
    ELSE merged

\* whether the try block of lines 160-168 raises
reproject_raises(india_boundary, merged, india_capitals, proj_ok) ==
    \/ to_crs_raises(boundary_with_crs(india_boundary), WGS84, proj_ok)
    \/ to_crs_raises(merged_with_crs(merged, india_capitals), WGS84, proj_ok)

\* ------------------------------------------------------------ bubble sizes
\* the join rows with nothing dropped
dropna_keeps_nulls(rows) == rows

\* merged_map.dropna(subset=["Silver_Purchased_kg"])
dropna(rows) ==
    Filter(rows, {i \in 1..Len(rows) : ~IsNaN(rows[i].Silver_Purchased_kg)}, 1)

\* float(plot_df["Silver_Purchased_kg"].max()): the largest value that is not
\* null, NaN when there is none
max_val(rows) ==
    LET q == {rows[i].Silver_Purchased_kg : i \in 1..Len(rows)} \ {NaN}
    IN  IF q = {} THEN NaN ELSE CHOOSE x \in q : \A y \in q : RatLeq(y, x)

\* (quantity / max_val).clip(0, 1) * 800 + 40
bubble_size(quantity, max) ==
    RatAdd(RatMul(clip(RatDiv(quantity, max), Float(0), Float(1)), Float(SizeScale)),
           Float(SizeMin))

\* plot_df with its _size column
with_sizes(rows) ==
    [i \in 1..Len(rows) |->
        [state_code |-> rows[i].state_code, geometry |-> rows[i].geometry,
         State |-> rows[i].State,
         Silver_Purchased_kg |-> rows[i].Silver_Purchased_kg,
         size |-> bubble_size(rows[i].Silver_Purchased_kg, max_val(rows))]]

\* ------------------------------------------------------------------ top 5
RECURSIVE InsertDesc(_, _, _)
\* x placed after every row of the sorted rows whose quantity is >= its own
InsertDesc(x, sorted, k) ==
    IF sorted = <<>> THEN <<x>>
    ELSE IF Head(sorted)[k] >= x[k]
         THEN <<Head(sorted)>> \o InsertDesc(x, Tail(sorted), k)
         ELSE <<x>> \o sorted

RECURSIVE SortDesc(_, _, _)
SortDesc(rows, k, done) ==
    IF rows = <<>> THEN done
    ELSE SortDesc(Tail(rows), k, InsertDesc(Head(rows), done, k))

\* sales_df.sort_values("Silver_Purchased_kg", ascending=False).head(5)
top5(sales_df) ==
    LET sorted == SortDesc(sales_df.rows, ColIndex(sales_df, H_Silver_Purchased_kg),
                           <<>>)
    IN  [columns |-> sales_df.columns,
         rows |-> SubSeq(sorted, 1, IF Len(sorted) < TopN THEN Len(sorted) ELSE TopN)]

\* --------------------------------------------------------------- january
\* the first column whose lower-cased name contains "silver" and "kg"
qty_col(columns) ==
    LET hits == {i \in 1..Len(columns) :
                    Contains(lower(columns[i]), S_silver)
                    /\ Contains(lower(columns[i]), S_kg)}
    IN  IF hits = {} THEN <<>> ELSE <<columns[MinOf(hits)]>>

\* sales_df[qty_col].sum()
total_january_sales(sales_df, col) ==
    SumSeq([r \in 1..Len(sales_df.rows) |-> Cell(sales_df, r, col)])

\* ------------------------------------------------------------------- state
VARIABLES
    disk,       \* the four files and whether the projection library can transform
    memo,       \* st.cache_data: per loader <<>> or <<the stored result>>
    widgets,    \* the session's widget values
    pc,         \* the section the running pass executes next, or how it ended
    env,        \* the script's module-level names
    page,       \* what the pass has put on the page
    first       \* history: <<>> or <<widgets and page of the first pass>>

vars == <<disk, memo, widgets, pc, env, page, first>>

Terminal == {"done", "stopped", "crashed"}

EmptyFrame == [columns |-> <<>>, rows |-> <<>>]
EmptyLayer == [crs |-> NoCRS, columns |-> <<>>, rows |-> <<>>]
EmptyMerged == [crs |-> NoCRS, rows |-> <<>>]
EmptyBoundary == [crs |-> NoCRS, geometry |-> "unset"]

\* the names before the script has bound them
EmptyEnv ==
    [price_df |-> <<>>, sales_df |-> EmptyFrame, india_capitals |-> EmptyLayer,
     india_boundary |-> EmptyBoundary, capitals_code_col |-> <<>>,
     total_cost |-> Float(0), filtered_price |-> <<>>,
     missing_state_codes |-> <<>>, merged_map |-> EmptyMerged, plot_df |-> <<>>,
     top5 |-> EmptyFrame, qty_col |-> <<>>, total_january_sales |-> 0,
     shared |-> {}]

\* the page of a pass that has shown nothing yet
EmptyPage ==
    [sidebar |-> <<>>, price_chart |-> <<>>, errors |-> <<>>, warning |-> <<>>,
     map |-> <<>>, preview |-> <<>>, top5_chart |-> <<>>, metric |-> <<>>,
     january_chart |-> <<>>, exception |-> <<>>]

\* number_input(min_value=0.0) starts at 0.0, a selectbox at its first option
DefaultWidgets ==
    [weight |-> Float(0), unit |-> "grams", price_per_gram |-> Float(0),
     currency |-> "INR", price_filter |-> BandLE]

\* a loader that runs its function on every call
cache_data_recomputes(entry, computed) == <<computed>>

\* @st.cache_data: the first call stores the function's result, later calls
\* return the stored one without running the function
cache_data(entry, computed) == IF Len(entry) = 0 THEN <<computed>> ELSE entry

\* the names a loader's caller shares with the memo: none, each call of a
\* cache_data function hands out its own deserialised copy
cache_data_shared(names) == {}

\* an in-place write through the name `name` reaches the memo's object only
\* when the name is bound to it
memo_after_write(m, shared, name, key, value) ==
    IF name \in shared THEN [m EXCEPT ![key] = <<value>>] ELSE m

\* ----------------------------------------------------------------- inputs
\* the State cells of the purchase file: a mapped name, a mapped name
\* written with a leading space, a no-break space and a space between its
\* words and a trailing carriage return, a name the table lacks, an empty cell
N_Goa == Str(<<"G","o","a">>)
N_TamilNadu ==
    Str(<<" ","T","a","m","i","l">>) \o <<160>> \o Str(<<" ","N","a","d","u">>)
    \o <<13>>
N_Atlantis == Str(<<"A","t","l","a","n","t","i","s">>)
RawNames == {N_Goa, N_TamilNadu, N_Atlantis, NoName}

RECURSIVE SeqsUpTo(_, _)
\* the sequences over S of length at most n
SeqsUpTo(S, n) ==
    IF n = 0 THEN {<<>>}
    ELSE LET shorter == SeqsUpTo(S, n - 1)
         IN  shorter \cup {Append(q, x) : q \in {t \in shorter : Len(t) = n - 1}, x \in S}

SalesRows == SeqsUpTo(RawNames \X (0..MaxQty), MaxRows)
H_Good == <<H_State, H_Silver_Purchased_kg>>
GoodSales(rows) == [columns |-> H_Good, rows |-> rows]

CapitalRows == <<<<"GA", "pt_panaji">>, <<"KL", "pt_thiruvananthapuram">>>>
Capitals(crs, header) ==
    [crs |-> crs, columns |-> <<header, H_geometry>>, rows |-> CapitalRows]
GoodCapitals == Capitals(WGS84, H_State)

Boundary(crs) == [crs |-> crs, geometry |-> "outline"]
GoodBoundary == Boundary(WGS84)

\* the layouts of the files around the purchase rows: layers without a CRS,
\* a boundary in another CRS with and without a working transformation, a
\* point layer without a code column, a purchase table without a quantity
\* column, a purchase table without a State column
Setup(header, capitals, boundary, proj_ok) ==
    [columns |-> header, capitals |-> capitals, boundary |-> boundary,
     proj_ok |-> proj_ok]
Setups ==
    {Setup(H_Good, Capitals(NoCRS, H_STATE), Boundary(NoCRS), TRUE),
     Setup(H_Good, GoodCapitals, Boundary("EPSG:3857"), TRUE),
     Setup(H_Good, GoodCapitals, Boundary("EPSG:3857"), FALSE),
     Setup(H_Good, Capitals(WGS84, H_ST_NM), GoodBoundary, TRUE),
     Setup(<<H_State, H_Quantity_kg>>, GoodCapitals, GoodBoundary, TRUE),
     Setup(<<H_Region, H_Silver_Purchased_kg>>, GoodCapitals, GoodBoundary, TRUE)}

PriceValues ==
    {BandLow - 1, BandLow, BandLow + 1, BandHigh - 1, BandHigh, BandHigh + 1}
ExamplePrices == <<<<2020, 19000>>, <<2021, 25000>>, <<2022, 31000>>>>
RECURSIVE PriceFilesOf(_)
\* price files of n rows, one row per year
PriceFilesOf(n) ==
    IF n = 0 THEN {<<>>}
    ELSE {Append(f, <<2000 + n, p>>) : f \in PriceFilesOf(n - 1), p \in PriceValues}
PriceFiles == UNION {PriceFilesOf(n) : n \in 0..MaxPriceRows}

\* number_input(min_value=0.0) has no max_value: small weights, 1000, and
\* the double 2^1023
Weights ==
    {Rat(w, d) : w \in 0..MaxWeight, d \in {1, 2}}
    \cup {Float(KiloFactor), ldexp(1, 1023)}
PricesPerGram == {Rat(p, 100) : p \in 0..MaxPrice} \cup {Float(1)}

\* ------------------------------------------------------------------- init
StartOfSession ==
    /\ memo = [price |-> <<>>, sales |-> <<>>, capitals |-> <<>>, boundary |-> <<>>]
    /\ widgets = DefaultWidgets
    /\ pc = "load"
    /\ env = EmptyEnv
    /\ page = EmptyPage
    /\ first = <<>>

Init ==
    /\ \E su \in Setups, rows \in SalesRows :
           disk = [price |-> ExamplePrices,
                   sales |-> [columns |-> su.columns, rows |-> rows],
                   capitals |-> su.capitals, boundary |-> su.boundary,
                   proj_ok |-> su.proj_ok]
    /\ StartOfSession

InitPrice ==
    /\ disk \in [price : PriceFiles, sales : {GoodSales(<<<<N_Goa, 1>>>>)},
                 capitals : {GoodCapitals}, boundary : {GoodBoundary},
                 proj_ok : {TRUE}]
    /\ StartOfSession

InitCost ==
    /\ disk = [price |-> ExamplePrices, sales |-> GoodSales(<<<<N_Goa, 1>>>>),
               capitals |-> GoodCapitals, boundary |-> GoodBoundary, proj_ok |-> TRUE]
    /\ StartOfSession

InitMemo ==
    /\ disk \in [price : {ExamplePrices}, sales : {GoodSales(r) : r \in SalesRows},
                 capitals : {GoodCapitals}, boundary : {GoodBoundary},
                 proj_ok : {TRUE}]
    /\ StartOfSession

\* ---------------------------------------------------------------- sections
\* lines 33-42: the four loads through the memo, and the code column lookup
Load ==
    /\ pc = "load"
    /\ LET m == [price |-> cache_data(memo.price, read_price_csv(disk.price)),
                 sales |-> cache_data(memo.sales, disk.sales),
                 capitals |-> cache_data(memo.capitals, disk.capitals),
                 boundary |-> cache_data(memo.boundary, disk.boundary)]
       IN  /\ memo' = m
           /\ env' = [EmptyEnv EXCEPT
                        !.price_df = m.price[1],
                        !.sales_df = m.sales[1],
                        !.india_capitals = m.capitals[1],
                        !.india_boundary = m.boundary[1],
                        !.capitals_code_col = capitals_code_col(m.capitals[1].columns),
                        !.shared = cache_data_shared({"price_df", "sales_df",
                                                      "india_capitals",
                                                      "india_boundary"})]
    /\ pc' = "sidebar"
    /\ UNCHANGED <<disk, widgets, page, first>>

\* lines 45-59: the cost calculator; the page gets the currency label and the
\* formatted total, of which the label is kept here
Sidebar ==
    /\ pc = "sidebar"
    /\ env' = [env EXCEPT !.total_cost =
                  total_cost(widgets.weight, widgets.unit, widgets.price_per_gram,
                             widgets.currency)]
    /\ page' = [page EXCEPT !.sidebar = <<widgets.currency>>]
    /\ pc' = "price"
    /\ UNCHANGED <<disk, memo, widgets, first>>

\* lines 63-86: the band filter and the line chart
PriceAnalysis ==
    /\ pc = "price"
    /\ LET f == filtered_price(env.price_df, widgets.price_filter)
       IN  /\ env' = [env EXCEPT !.filtered_price = f]
           /\ page' = [page EXCEPT !.price_chart = <<f>>]
    /\ pc' = "map_check"
    /\ UNCHANGED <<disk, memo, widgets, first>>

\* lines 90-93: st.error and st.stop() when the point layer has no code column
MapCheck ==
    /\ pc = "map_check"
    /\ IF env.capitals_code_col = <<>>
       THEN /\ page' = [page EXCEPT !.errors = Append(@, "no_state_column")]
            /\ pc' = "stopped"
       ELSE /\ page' = page
            /\ pc' = "reconcile"
    /\ UNCHANGED <<disk, memo, widgets, env, first>>

\* lines 140-149: the copy, the normalised names, the codes and the warning;
\* sales_df["State"] raises KeyError on a table without that column
Reconcile ==
    /\ pc = "reconcile"
    /\ IF ~HasCol(env.sales_df, H_State)
       THEN /\ page' = [page EXCEPT !.exception = <<"KeyError: 'State'">>]
            /\ pc' = "crashed"
            /\ UNCHANGED <<env, memo>>
       ELSE LET still_shared == env.shared \ {"sales_df"}
                df == reconcile(env.sales_df)
                missing == missing_state_codes(df)
            IN  /\ env' = [env EXCEPT !.sales_df = df, !.shared = still_shared,
                                      !.missing_state_codes = missing]
                /\ memo' = memo_after_write(memo, still_shared, "sales_df", "sales", df)
                /\ page' = IF missing # <<>>
                           THEN [page EXCEPT !.warning = <<missing>>]
                           ELSE page
                /\ pc' = "merge"
    /\ UNCHANGED <<disk, widgets, first>>

\* lines 151-158: the point frame and the left join; selecting a column the
\* frame does not have raises KeyError
Merge ==
    /\ pc = "merge"
    /\ IF \/ ~HasCol(env.india_capitals, H_geometry)
          \/ ~HasCol(env.sales_df, H_Silver_Purchased_kg)
       THEN /\ page' = [page EXCEPT !.exception = <<"KeyError: not in index">>]
            /\ pc' = "crashed"
            /\ env' = env
       ELSE /\ env' = [env EXCEPT !.merged_map =
                          merged_map(capitals_frame(env.india_capitals,
                                                    env.capitals_code_col[1]),
                                     env.sales_df)]
            /\ page' = page
            /\ pc' = "reproject"
    /\ UNCHANGED <<disk, memo, widgets, first>>

\* lines 160-171: both layers brought to EPSG:4326; st.error and st.stop()
\* when a to_crs of the try block raises, the names keeping what the
\* statements before it bound them to
Reproject ==
    /\ pc = "reproject"
    /\ IF reproject_raises(env.india_boundary, env.merged_map, env.india_capitals,
                           disk.proj_ok)
       THEN /\ page' = [page EXCEPT !.errors = Append(@, "reproject_failed")]
            /\ pc' = "stopped"
            /\ env' = [env EXCEPT
                         !.india_boundary =
                             IF to_crs_raises(boundary_with_crs(@), WGS84,
                                              disk.proj_ok)
                             THEN boundary_with_crs(@)
                             ELSE to_crs(boundary_with_crs(@), WGS84),
                         !.merged_map = merged_with_crs(@, env.india_capitals),
                         !.shared =
                             IF /\ env.india_boundary.crs # NoCRS
                                /\ to_crs_raises(env.india_boundary, WGS84,
                                                 disk.proj_ok)
                             THEN @ ELSE @ \ {"india_boundary"}]
       ELSE /\ env' = [env EXCEPT
                         !.india_boundary = to_crs(boundary_with_crs(@), WGS84),
                         !.merged_map =
                             to_crs(merged_with_crs(@, env.india_capitals), WGS84),
                         !.shared = @ \ {"india_boundary"}]
            /\ page' = page
            /\ pc' = "render_map"
    /\ UNCHANGED <<disk, memo, widgets, first>>

\* lines 174-201: the boundary, the sized points or the no-data error, the
\* figure and the join preview
RenderMap ==
    /\ pc = "render_map"
    /\ LET kept == dropna(env.merged_map.rows)
           points == IF kept = <<>> THEN <<>> ELSE with_sizes(kept)
       IN  /\ env' = [env EXCEPT !.plot_df = points]
           /\ page' = [page EXCEPT
                         !.errors = IF kept = <<>>
                                    THEN Append(@, "no_sales_joined") ELSE @,
                         !.map = <<[boundary |-> env.india_boundary,
                                    points |-> points]>>,
                         !.preview = <<env.merged_map.rows>>]
    /\ pc' = "top5"
    /\ UNCHANGED <<disk, memo, widgets, first>>

\* lines 205-216: the five largest rows and their bar chart
Top5 ==
    /\ pc = "top5"
    /\ LET t == top5(env.sales_df)
       IN  /\ env' = [env EXCEPT !.top5 = t]
           /\ page' = [page EXCEPT !.top5_chart = <<t.rows>>]
    /\ pc' = "january"
    /\ UNCHANGED <<disk, memo, widgets, first>>

\* lines 220-245: the quantity column lookup, the total, the metric and its bar
January ==
    /\ pc = "january"
    /\ LET col == qty_col(env.sales_df.columns)
       IN  IF col = <<>>
           THEN /\ env' = [env EXCEPT !.qty_col = col]
                /\ page' = [page EXCEPT !.errors = Append(@, "qty_col_not_found")]
                /\ pc' = "stopped"
           ELSE LET total == total_january_sales(env.sales_df, col[1])
                IN  /\ env' = [env EXCEPT !.qty_col = col,
                                          !.total_january_sales = total]
                    /\ page' = [page EXCEPT !.metric = <<total>>,
                                            !.january_chart = <<total>>]
                    /\ pc' = "done"
    /\ UNCHANGED <<disk, memo, widgets, first>>

\* ------------------------------------------------------------ interactions
\* a new pass starts from the top with a fresh namespace and an empty page
StartPass(w) ==
    /\ pc \in Terminal
    /\ widgets' = w
    /\ pc' = "load"
    /\ env' = EmptyEnv
    /\ page' = EmptyPage
    /\ first' = IF first = <<>> THEN <<[widgets |-> widgets, page |-> page]>>
                ELSE first
    /\ UNCHANGED <<disk, memo>>

\* the user asks for a re-run without changing a widget
Rerun == StartPass(widgets)

\* the user picks another price band
SelectPriceFilter ==
    \E f \in Bands \ {widgets.price_filter} :
        StartPass([widgets EXCEPT !.price_filter = f])

\* the user changes one widget of the sidebar calculator
EditCalculator ==
    \/ \E w \in Weights \ {widgets.weight} : StartPass([widgets EXCEPT !.weight = w])
    \/ \E u \in Units \ {widgets.unit} : StartPass([widgets EXCEPT !.unit = u])
    \/ \E p \in PricesPerGram \ {widgets.price_per_gram} :
           StartPass([widgets EXCEPT !.price_per_gram = p])
    \/ \E c \in Currencies \ {widgets.currency} :
           StartPass([widgets EXCEPT !.currency = c])

\* the purchase file is rewritten on disk while the app runs: its last row
\* is removed
FileRewritten ==
    /\ disk.sales.rows # <<>>
    /\ disk' = [disk EXCEPT !.sales.rows = SubSeq(@, 1, Len(@) - 1)]
    /\ UNCHANGED <<memo, widgets, pc, env, page, first>>

Sections ==
    \/ Load \/ Sidebar \/ PriceAnalysis \/ MapCheck \/ Reconcile \/ Merge
    \/ Reproject \/ RenderMap \/ Top5 \/ January

Next == Sections \/ Rerun \/ SelectPriceFilter
NextCost == Sections \/ Rerun \/ SelectPriceFilter \/ EditCalculator
NextMemo == Sections \/ Rerun \/ SelectPriceFilter \/ FileRewritten

Spec == Init /\ [][Next]_vars
SpecPrice == InitPrice /\ [][Next]_vars
SpecCost == InitCost /\ [][NextCost]_vars
SpecMemo == InitMemo /\ [][NextMemo]_vars

\* ------------------------------------------------------------------ claims
HasError(e) == \E i \in 1..Len(page.errors) : page.errors[i] = e

\* the sections a pass that has ended went through, read off the page
Reconciled ==
    \/ pc \in {"merge", "reproject", "render_map", "top5", "january", "done"}
    \/ HasError("reproject_failed") \/ HasError("qty_col_not_found")
    \/ page.exception = <<"KeyError: not in index">>
Joined ==
    \/ pc \in {"reproject", "render_map", "top5", "january", "done"}
    \/ HasError("reproject_failed") \/ HasError("qty_col_not_found")
MapRendered == Len(page.map) = 1
Top5Rendered == Len(page.top5_chart) = 1
TotalRendered == Len(page.metric) = 1 /\ Len(page.january_chart) = 1

\* C1: a fatal condition of the map section (no code column on the point
\* layer, a failed reprojection) leaves the Top-5 chart and the total metric
\* and bar rendered in the pass where it occurs.
C1_MapFatalKeepsOtherSections ==
    (pc \in Terminal /\ (HasError("no_state_column") \/ HasError("reproject_failed")))
        => (Top5Rendered /\ TotalRendered)

\* C2: a pass over a purchase table without a quantity column ends with a
\* message and with none of the price chart, the map and the Top-5 chart
\* rendered.
C2_NoQuantityColumnNoCharts ==
    (pc \in Terminal /\ qty_col(memo.sales[1].columns) = <<>>)
        => /\ pc # "done"
           /\ (page.errors # <<>> \/ page.exception # <<>>)
           /\ Len(page.price_chart) = 0
           /\ ~MapRendered
           /\ ~Top5Rendered

IdxOf(rows) == {rows[i].idx : i \in 1..Len(rows)}

\* C3: the three band filters partition the loaded price table: their
\* results are pairwise disjoint, together they hold every row exactly once
\* (rows priced exactly 20000 or 30000 included), and the chart of a pass
\* shows the rows of the selected band.
C3_BandsPartition ==
    pc # "load" =>
        LET df == env.price_df
            B(f) == filtered_price(df, f)
        IN  /\ \A f \in Bands :
                  /\ Cardinality(IdxOf(B(f))) = Len(B(f))
                  /\ \A i \in 1..Len(B(f)) : \E j \in 1..Len(df) : df[j] = B(f)[i]
            /\ \A f \in Bands, g \in Bands : f # g => IdxOf(B(f)) \cap IdxOf(B(g)) = {}
            /\ IdxOf(B(BandLE)) \cup IdxOf(B(BandMid)) \cup IdxOf(B(BandGE)) = IdxOf(df)
            /\ \A j \in 1..Len(df) :
                  Cardinality({f \in Bands : df[j].idx \in IdxOf(B(f))}) = 1
            /\ Len(page.price_chart) = 1 =>
                  IdxOf(page.price_chart[1]) =
                      {df[j].idx : j \in {k \in 1..Len(df) :
                          LET v == df[k].Silver_Price_INR_per_kg
                          IN  CASE widgets.price_filter = BandLE -> v <= 20000
                                [] widgets.price_filter = BandMid -> v > 20000 /\ v < 30000
                                [] OTHER -> v >= 30000}}

\* a pass over a table with rows priced exactly 20000, exactly 30000 and in
\* between has charted the middle band, which holds neither boundary row
C3_Witness ==
    /\ pc = "done"
    /\ widgets.price_filter = BandMid
    /\ \E i, j \in 1..Len(env.price_df) :
          /\ env.price_df[i].Silver_Price_INR_per_kg = 20000
          /\ env.price_df[j].Silver_Price_INR_per_kg = 30000
    /\ Len(page.price_chart[1]) = 1
    /\ Len(env.price_df) = 3

\* the purchase rows of the pass as read, with their normalised names
NamesOf(df) ==
    {normalize_state_name(Cell(df, r, H_State)) : r \in 1..Len(df.rows)}
RECURSIVE SumWhere(_, _, _)
\* the sum of the quantity column k over the rows whose index is in keep
SumWhere(rows, keep, k) ==
    IF keep = {} THEN 0
    ELSE LET r == CHOOSE x \in keep : TRUE
         IN  rows[r][k] + SumWhere(rows, keep \ {r}, k)
GroupSum(df, name) ==
    SumWhere(df.rows,
             {r \in 1..Len(df.rows) : normalize_state_name(Cell(df, r, H_State)) = name},
             ColIndex(df, H_Silver_Purchased_kg))
CodeSum(df, code) ==
    SumWhere(df.rows,
             {r \in 1..Len(df.rows) :
                 MapCode(normalize_state_name(Cell(df, r, H_State))) = code},
             ColIndex(df, H_Silver_Purchased_kg))
CodeRows(df, code) ==
    {r \in 1..Len(df.rows) :
        MapCode(normalize_state_name(Cell(df, r, H_State))) = code}

\* C4: the Top-5 result has min(5, number of distinct region names) rows, is
\* sorted by descending quantity, and starts with the region whose grouped
\* quantity is the unique maximum, when there is one.
C4_Top5OfGroupedRegions ==
    Top5Rendered =>
        LET src == memo.sales[1]
            rows == env.top5.rows
            k == ColIndex(env.top5, H_Silver_Purchased_kg)
            n == ColIndex(env.top5, H_State)
            names == NamesOf(src)
        IN  /\ Len(rows) = IF Cardinality(names) < 5 THEN Cardinality(names) ELSE 5
            /\ \A i \in 1..(Len(rows) - 1) : rows[i][k] >= rows[i + 1][k]
            /\ \A a \in names :
                  (\A b \in names \ {a} : GroupSum(src, a) > GroupSum(src, b))
                      => (rows # <<>> /\ rows[1][n] = a)

\* C5: in the joined map data every point of the layer is in exactly one
\* row, whose quantity is the sum of the purchase rows reconciled to its
\* code, or null when there is none.
C5_JoinOneRowPerPoint ==
    Joined =>
        LET src == memo.sales[1]
            m == env.merged_map.rows
        IN  \A p \in 1..Len(memo.capitals[1].rows) :
                LET code == Cell(memo.capitals[1], p, env.capitals_code_col[1])
                    hits == {i \in 1..Len(m) : m[i].state_code = code}
                IN  /\ Cardinality(hits) = 1
                    /\ \A i \in hits :
                          IF CodeRows(src, code) = {}
                          THEN IsNaN(m[i].Silver_Purchased_kg)
                          ELSE RatEq(m[i].Silver_Purchased_kg,
                                     Float(CodeSum(src, code)))

\* C6: the calculator's total is weight in grams x price per gram, a weight
\* in kilograms counting 1000-fold, divided by 83 for USD; it is >= 0, it is
\* 0 when the weight or the price is 0, and 1 kilogram costs what 1000 grams
\* cost at the same price and currency.
C6_CostFormula ==
    pc \notin {"load", "sidebar"} =>
        LET w == widgets.weight
            p == widgets.price_per_gram
            k == IF widgets.unit = "kilograms" THEN 1000 ELSE 1
            r == IF widgets.currency = "USD" THEN 83 ELSE 1
            t == env.total_cost
        IN  /\ RatEq(t, RatDiv(RatMul(RatMul(w, Float(k)), p), Float(r)))
            /\ RatLeq(Float(0), t)
            /\ (IsZero(w) \/ IsZero(p)) => IsZero(t)
            /\ RatEq(total_cost(Float(1), "kilograms", p, widgets.currency),
                     total_cost(Float(1000), "grams", p, widgets.currency))
            /\ (RatEq(w, Float(1)) /\ widgets.unit = "kilograms")
                   => RatEq(t, total_cost(Float(1000), "grams", p, widgets.currency))

\* whether the load of the layers as stored makes the reprojection raise
StoredLayersRaise ==
    \/ memo.boundary[1].crs \notin {NoCRS, WGS84} /\ ~disk.proj_ok
    \/ memo.capitals[1].crs \notin {NoCRS, WGS84} /\ ~disk.proj_ok

\* C7: a purchase row whose normalised name is no key of the code table does
\* not end the pass: the warning lists exactly the distinct unmapped names,
\* no row of the map join carries such a name, the total of a finished pass
\* counts every row, and a pass ends early only for another reason (no code
\* column, no quantity column, a failed reprojection).
C7_UnmappedNamesNonFatal ==
    (pc # "load" /\ HasCol(memo.sales[1], H_State)) =>
        LET src == memo.sales[1]
            U == NamesOf(src) \ DOMAIN STATE_NAME_TO_CODE
            m == env.merged_map.rows
        IN  /\ Reconciled =>
                  IF U = {} THEN page.warning = <<>>
                  ELSE /\ Len(page.warning) = 1
                       /\ {page.warning[1][i] : i \in 1..Len(page.warning[1])} = U
                       /\ Len(page.warning[1]) = Cardinality(U)
            /\ Joined => \A i \in 1..Len(m) : m[i].State \notin U
            /\ pc = "done" =>
                  /\ HasCol(src, H_Silver_Purchased_kg)
                  /\ page.metric =
                        <<SumWhere(src.rows, 1..Len(src.rows),
                                   ColIndex(src, H_Silver_Purchased_kg))>>
            /\ pc \in {"stopped", "crashed"} =>
                  \/ capitals_code_col(memo.capitals[1].columns) = <<>>
                  \/ ~HasCol(src, H_Silver_Purchased_kg)
                  \/ StoredLayersRaise

\* a finished pass over one unmapped and one mapped row: the warning names
\* the unmapped one, the map joins only the mapped one, the total counts both
C7_Witness ==
    /\ pc = "done"
    /\ memo.sales[1].rows = <<<<N_Atlantis, 1>>, <<N_Goa, 1>>>>
    /\ page.warning = <<<<N_Atlantis>>>>
    /\ page.metric = <<2>>
    /\ Len(env.plot_df) = 1
    /\ env.plot_df[1].State = N_Goa

AllNull(rows) == \A i \in 1..Len(rows) : IsNaN(rows[i].Silver_Purchased_kg)

\* C8: a pass that reaches the map with no joined row of non-null quantity
\* shows the no-data error, draws no point, raises nothing and goes on to
\* the Top-5 and total sections; the error is shown in no other case.
C8_EmptyJoinIsNoData ==
    MapRendered =>
        /\ AllNull(env.merged_map.rows) =>
              /\ HasError("no_sales_joined")
              /\ page.map[1].points = <<>>
              /\ page.exception = <<>>
              /\ pc \in {"top5", "january", "done"}
              /\ pc = "done" => (Top5Rendered /\ TotalRendered)
        /\ HasError("no_sales_joined") => AllNull(env.merged_map.rows)

\* a finished pass whose purchase rows all miss the layer
C8_Witness ==
    /\ pc = "done"
    /\ Len(memo.sales[1].rows) = 2
    /\ page.errors = <<"no_sales_joined">>
    /\ page.map[1].points = <<>>
    /\ Top5Rendered /\ TotalRendered

MemoKeys == {"price", "sales", "capitals", "boundary"}

\* C9: a populated memo entry never changes, and a pass run again with the
\* widget values of the first pass ends with the page of the first pass.
C9_MemoReadOnly ==
    [][/\ \A k \in MemoKeys : Len(memo[k]) = 1 => memo'[k] = memo[k]
       /\ (pc' \in Terminal /\ first' # <<>> /\ widgets' = first'[1].widgets)
              => page' = first'[1].page]_vars

\* a re-run with the first pass's widgets has finished after the purchase
\* file changed on disk, on its own copy carrying the code column
C9_Witness ==
    /\ pc = "done"
    /\ first # <<>>
    /\ widgets = first[1].widgets
    /\ page = first[1].page
    /\ memo.sales[1] # disk.sales
    /\ HasCol(env.sales_df, H_state_code)
    /\ ~HasCol(memo.sales[1], H_state_code)

\* C10: when a joined row has a non-null quantity, every plotted point has a
\* defined size 40 + 800 x quantity / max quantity, between 40 and 840, a
\* table whose largest quantity is 0 included.
C10_SizesDefined ==
    (MapRendered /\ ~AllNull(env.merged_map.rows)) =>
        LET pts == page.map[1].points
            q == {pts[i].Silver_Purchased_kg : i \in 1..Len(pts)}
            mx == CHOOSE x \in q : \A y \in q : RatLeq(y, x)
        IN  /\ pts # <<>>
            /\ \A i \in 1..Len(pts) :
                  /\ ~IsNaN(pts[i].size)
                  /\ RatEq(pts[i].size,
                           RatAdd(Float(40),
                                  RatMul(Float(800),
                                         RatDiv(pts[i].Silver_Purchased_kg, mx))))
                  /\ RatLeq(Float(40), pts[i].size)
                  /\ RatLeq(pts[i].size, Float(840))

====
